---- MODULE Spec2Model ----
(***************************************************************************)
(* A model of jasp/tokenizer.py: the function tokenize(source), a single   *)
(* left-to-right scan of a string that appends Token objects to a list or  *)
(* raises TypeError.  Characters are one-character strings, a source is a  *)
(* sequence of characters, and the cursor i is 0-based as in the Python.   *)
(***************************************************************************)
EXTENDS Integers, Sequences, FiniteSets, TLC

\* ------------------------------------------------------------------ bounds

\* Longest source, counted in pieces, built over the whole alphabet.
MaxPieces == 3

\* Longest source, counted in pieces, built over the string-literal alphabet.
MaxStrPieces == 5

\* ------------------------------------------------------- character classes

LF == "\n"
QUOTE == "\""
BACKSLASH == "\\"

Digits == {"0", "1", "2", "3", "4", "5", "6", "7", "8", "9"}

Lower == {"a", "b", "c", "d", "e", "f", "g", "h", "i", "j", "k", "l", "m",
          "n", "o", "p", "q", "r", "s", "t", "u", "v", "w", "x", "y", "z"}

\* re.compile('\s+').search(char) on a one-character string
WHITESPACE_RE(c) == c \in {" ", "\t", LF, "\r", "\f"}

\* re.compile('[0-9]').match(char)
DIGIT_RE(c) == c \in Digits

Upper == {"A", "B", "C", "D", "E", "F", "G", "H", "I", "J", "K", "L", "M",
          "N", "O", "P", "Q", "R", "S", "T", "U", "V", "W", "X", "Y", "Z"}

\* The pattern of IDENTIFIER_RE1 compiled with re.IGNORECASE.
IDENTIFIER_RE1_IgnoreCase(c) == c \in Lower \cup Upper \cup {"_"}

\* re.compile('[a-z_]').match(char)
IDENTIFIER_RE1(c) == c \in Lower \cup {"_"}

\* re.compile('[a-z_\-0-9]').match(char)
IDENTIFIER_RE2(c) == c \in Lower \cup Digits \cup {"_", "-"}

\* The pattern of ARITHMETIC_RE without its hyphen.
ARITHMETIC_RE_NoHyphen(c) == c \in {"+", "*", "/"}

\* re.compile('[+\-\*/]').match(char)
ARITHMETIC_RE(c) == c \in {"+", "-", "*", "/"}

\* re.compile('[=<>]').match(char)
OPERATOR_RE(c) == c \in {"=", "<", ">"}

\* int(char) for one decimal digit
DigitVal(c) ==
    CASE c = "0" -> 0 [] c = "1" -> 1 [] c = "2" -> 2 [] c = "3" -> 3
      [] c = "4" -> 4 [] c = "5" -> 5 [] c = "6" -> 6 [] c = "7" -> 7
      [] c = "8" -> 8 [] c = "9" -> 9

\* int(value) for a non-empty run of decimal digits
RECURSIVE IntOf(_)
IntOf(v) ==
    IF Len(v) = 0 THEN 0
    ELSE 10 * IntOf(SubSeq(v, 1, Len(v) - 1)) + DigitVal(v[Len(v)])

TRUE_WORD == <<"t", "r", "u", "e">>
FALSE_WORD == <<"f", "a", "l", "s", "e">>

\* ------------------------------------------------------------------ inputs

\* The pieces a source is concatenated from: every character class of the
\* scanner is represented, and the two keywords are pieces of their own.
Pieces ==
    { <<"(">>, <<")">>, <<" ">>, <<LF>>, <<"0">>, <<"1">>, <<"2">>,
      <<QUOTE>>, <<BACKSLASH>>, <<"a">>, <<"_">>, TRUE_WORD, FALSE_WORD,
      <<"-">>, <<"+">>, <<"=">>, <<"<">>, <<">">>, <<".">> }

\* The pieces of the sources that exercise string literals.
StrPieces ==
    { <<QUOTE>>, <<BACKSLASH>>, <<LF>>, <<"(">>, <<"0">>, <<"=">> }

RECURSIVE Flatten(_)
\* The concatenation of a sequence of pieces.
Flatten(f) ==
    IF Len(f) = 0 THEN <<>>
    ELSE Flatten(SubSeq(f, 1, Len(f) - 1)) \o f[Len(f)]

\* source is a concatenation of at most n pieces of P.
IsConcat(s, P, n) == \E k \in 0..n : \E f \in [1..k -> P] : s = Flatten(f)

\* The example of the docstring, `(+ 3 243)`.
DocExample == <<"(", "+", " ", "3", " ", "2", "4", "3", ")">>

\* `<= >= < > = ==`
OperatorExample ==
    <<"<", "=", " ", ">", "=", " ", "<", " ", ">", " ", "=", " ", "=", "=">>

\* `Foo`: an upper-case letter in front of an identifier.
UpperExample == <<"F", "o", "o">>

\* `(* -12 (/ 3 +4))`: each arithmetic character, one in front of digits.
ArithmeticExample ==
    <<"(", "*", " ", "-", "1", "2", " ", "(", "/", " ", "3", " ", "+", "4",
      ")", ")">>

Examples == { DocExample, OperatorExample, UpperExample, ArithmeticExample }

\* -------------------------------------------------------------------- state

VARIABLES
    source,   \* the argument of tokenize
    i,        \* cursor index, 0-based
    line,     \* current line, 1-based
    col,      \* current column
    char,     \* the character last read
    prev,     \* string branch: the character read before char
    value,    \* accumulator of the lexeme in progress
    tokens,   \* the list of tokens built so far
    pc,       \* "main", "number", "string", "identifier", "done", "error"
    err,      \* the message class of the exception raised, or "none"
    result,   \* <<>> while nothing is returned, <<tokens>> once returned
    start,    \* history: index of the first character of the lexeme in progress
    last,     \* history: index of the last character taken into that lexeme
    spans,    \* history: per token, the indices [first, last] of its lexeme
    reads,    \* history: the indices k of the reads source[k] of the last step
    calls,    \* the number of calls of tokenize that have ended
    first,    \* the outcome of the first call, once it has ended
    left,     \* Token.__eq__: self
    right,    \* Token.__eq__: other
    compared, \* Token.__eq__ has returned
    equal     \* what Token.__eq__ returned

scan == <<source, i, line, col, char, prev, value, tokens, pc, err, result,
          start, last, spans, reads>>

outside == <<calls, first, left, right, compared, equal>>

vars == <<source, i, line, col, char, prev, value, tokens, pc, err, result,
          start, last, spans, reads, calls, first, left, right, compared,
          equal>>

\* Whether source[k] is a character: Python counts a negative k from the end
\* and raises IndexError for any other k outside the string.
Indexable(k) == -Len(source) <= k /\ k < Len(source)

\* source[k] of the Python, k 0-based; "" stands for no character at all.
Read(k) ==
    IF 0 <= k /\ k < Len(source) THEN source[k + 1]
    ELSE IF -Len(source) <= k /\ k < 0 THEN source[Len(source) + k + 1]
    ELSE ""

\* The default of the line and col parameters of Token.
None == 0

\* Token(type, value, line, col)
Token(t, v, l, c) == [type |-> t, value |-> v, line |-> l, col |-> c]

OPEN_PAREN == Token("paren", "open", None, None)
CLOSE_PAREN == Token("paren", "close", None, None)

\* Token.__eq__ comparing the positions as well.
TokenEqWithPosition(a, b) ==
    a.type = b.type /\ a.value = b.value /\ a.line = b.line /\ a.col = b.col

\* Token.__eq__(self, other)
TokenEq(a, b) == a.type = b.type /\ a.value = b.value

\* A list that outlives the call, as a default argument would.
SharedTokens(old) == old

\* tokens = [], old being the list of the call before
FreshTokens(old) == <<>>

\* No call has ended yet.
NoOutcome == [err |-> "none", returned |-> FALSE, tokens |-> <<>>]

\* The locals of tokenize at the top of its body.
Enter(old) ==
    /\ i = 0
    /\ line = 1
    /\ col = 1
    /\ char = ""
    /\ prev = ""
    /\ value = <<>>
    /\ tokens = FreshTokens(old)
    /\ pc = "main"
    /\ err = "none"
    /\ result = <<>>
    /\ start = 0
    /\ last = 0
    /\ spans = <<>>
    /\ reads = {}

Init ==
    /\ \/ IsConcat(source, Pieces, MaxPieces)
       \/ IsConcat(source, StrPieces, MaxStrPieces)
       \/ source \in Examples
    /\ Enter(<<>>)
    /\ calls = 0
    /\ first = NoOutcome
    /\ left = OPEN_PAREN
    /\ right = CLOSE_PAREN
    /\ compared = FALSE
    /\ equal = FALSE

\* --------------------------------------------------------------- main loop

\* while i < len(source)
LoopHead == pc = "main" /\ i < Len(source)

\* The elif chain of the loop body, in its order.
Classify(c) ==
    IF c = "(" THEN "open"
    ELSE IF c = ")" THEN "close"
    ELSE IF WHITESPACE_RE(c) THEN "whitespace"
    ELSE IF c = "0" THEN "zero"
    ELSE IF DIGIT_RE(c) THEN "number"
    ELSE IF c = QUOTE THEN "string"
    ELSE IF IDENTIFIER_RE1(c) THEN "identifier"
    ELSE IF ARITHMETIC_RE(c) THEN "arithmetic"
    ELSE IF OPERATOR_RE(c) THEN "operator"
    ELSE "none"

\* if char == '\n': line += 1; col = 1
LineNow == IF Read(i) = LF THEN line + 1 ELSE line
ColNow == IF Read(i) = LF THEN 1 ELSE col

\* A step that reads source[k] for the k of R and then does A: a read outside
\* the string raises IndexError instead.
Checked(R, A) ==
    /\ reads' = R
    /\ UNCHANGED outside
    /\ IF \A k \in R : Indexable(k)
       THEN A
       ELSE /\ pc' = "error"
            /\ err' = "index_error"
            /\ UNCHANGED <<source, i, line, col, char, prev, value, tokens,
                           result, start, last, spans>>

\* The read of a lookahead source[i+1], made when its guard g holds.
Ahead(g) == IF g THEN {i + 1} ELSE {}

\* A branch that appends one token for the lexeme [i, l] and falls through to
\* i += 1; col += 1, the cursor having been left on index j.
EmitOne(t, v, l, j) ==
    /\ char' = Read(i)
    /\ line' = LineNow
    /\ tokens' = Append(tokens, Token(t, v, LineNow, ColNow))
    /\ spans' = Append(spans, [first |-> i, last |-> l])
    /\ start' = i
    /\ last' = l
    /\ i' = j + 1
    /\ col' = ColNow + 1
    /\ UNCHANGED <<source, prev, value, pc, err, result>>

\* A branch that starts an inner loop with the accumulator v.
StartRun(p, v) ==
    /\ char' = Read(i)
    /\ line' = LineNow
    /\ col' = ColNow
    /\ value' = v
    /\ start' = i
    /\ last' = i
    /\ pc' = p
    /\ UNCHANGED <<source, i, tokens, err, result, spans>>

\* raise TypeError(...) out of the main loop or out of an inner loop
Raise(e, c, j) ==
    /\ pc' = "error"
    /\ err' = e
    /\ char' = c
    /\ i' = j
    /\ UNCHANGED <<source, value, tokens, result, spans>>

\* The end of an inner loop: append the token of the lexeme [start, l], then
\* i += 1; col += 1 from the index j the loop left the cursor on.
EndRun(t, v, c, l, j) ==
    /\ tokens' = Append(tokens, Token(t, v, line, col))
    /\ spans' = Append(spans, [first |-> start, last |-> l])
    /\ char' = c
    /\ last' = l
    /\ i' = j + 1
    /\ col' = col + 1
    /\ pc' = "main"
    /\ UNCHANGED <<source, line, value, err, result, start>>

OpenParen ==
    /\ LoopHead
    /\ Classify(Read(i)) = "open"
    /\ Checked({i}, EmitOne("paren", "open", i, i))

CloseParen ==
    /\ LoopHead
    /\ Classify(Read(i)) = "close"
    /\ Checked({i}, EmitOne("paren", "close", i, i))

Whitespace ==
    /\ LoopHead
    /\ Classify(Read(i)) = "whitespace"
    /\ Checked({i},
          /\ char' = Read(i)
          /\ line' = LineNow
          /\ col' = ColNow + 1
          /\ i' = i + 1
          /\ UNCHANGED <<source, prev, value, tokens, pc, err, result, start,
                         last, spans>>)

\* if i < len(source) - 1 and ..., in the zero branch
ZeroHasNext == i < Len(source) - 1

\* The lookahead of the zero branch without its digit test.
ZeroFollowedByAny == i < Len(source) - 1

\* if i < len(source) - 1 and DIGIT_RE.match(source[i+1])
ZeroFollowedByDigit == ZeroHasNext /\ DIGIT_RE(Read(i + 1))

LeadingZero ==
    /\ LoopHead
    /\ Classify(Read(i)) = "zero"
    /\ ZeroFollowedByDigit
    /\ Checked({i} \cup Ahead(ZeroHasNext),
          /\ Raise("leading_zero", Read(i), i)
          /\ start' = i
          /\ last' = i
          /\ UNCHANGED <<line, col, prev>>)

Zero ==
    /\ LoopHead
    /\ Classify(Read(i)) = "zero"
    /\ ~ZeroFollowedByDigit
    /\ Checked({i} \cup Ahead(ZeroHasNext),
               EmitOne("number", DigitVal(Read(i)), i, i))

Arithmetic ==
    /\ LoopHead
    /\ Classify(Read(i)) = "arithmetic"
    /\ Checked({i}, EmitOne("arithmetic", Read(i), i, i))

Skip ==
    /\ LoopHead
    /\ Classify(Read(i)) = "none"
    /\ Checked({i},
          /\ char' = Read(i)
          /\ i' = i + 1
          /\ col' = col + 1
          /\ UNCHANGED <<source, line, prev, value, tokens, pc, err, result,
                         start, last, spans>>)

\* return tokens
Return ==
    /\ pc = "main"
    /\ ~(i < Len(source))
    /\ Checked({},
          /\ pc' = "done"
          /\ result' = <<tokens>>
          /\ UNCHANGED <<source, i, line, col, char, prev, value, tokens, err,
                         start, last, spans>>)

\* ------------------------------------------------------------------ numbers

\* The number loop without its restore of i.
NumberNoRestore(j) == j

\* i -= 1 of the number loop ("Restore i")
NumberRestore(j) == j - 1

\* while i < len(source) - 1, in the number branch
NumberHasNext == i < Len(source) - 1

NumberStart ==
    /\ LoopHead
    /\ Classify(Read(i)) = "number"
    /\ Checked({i}, StartRun("number", <<Read(i)>>) /\ UNCHANGED prev)

\* One iteration of the number loop that reads a digit: value += char
NumberDigit ==
    /\ pc = "number"
    /\ NumberHasNext
    /\ DIGIT_RE(Read(i + 1))
    /\ Checked({i + 1},
          /\ i' = i + 1
          /\ char' = Read(i + 1)
          /\ value' = Append(value, Read(i + 1))
          /\ last' = i + 1
          /\ UNCHANGED <<source, line, col, prev, tokens, pc, err, result,
                         start, spans>>)

\* The number loop ends, on a non-digit (read, then i restored) or because
\* i reached len(source) - 1; the Number token is appended.
NumberEnd ==
    /\ pc = "number"
    /\ ~(NumberHasNext /\ DIGIT_RE(Read(i + 1)))
    /\ Checked(Ahead(NumberHasNext),
          /\ EndRun("number", IntOf(value),
                    IF NumberHasNext THEN Read(i + 1) ELSE char,
                    last,
                    IF NumberHasNext THEN NumberRestore(i + 1) ELSE i)
          /\ UNCHANGED prev)

\* ------------------------------------------------------------------ strings

\* The break condition of the string loop without its test of prev.
StringClosesAnyQuote(c, p) == c = QUOTE

\* if char == '"' and prev != '\\'
StringCloses(c, p) == c = QUOTE /\ p # BACKSLASH

\* if i + 1 == len(source) and ..., with the cursor on index j
AtLastIndex(j) == j + 1 = Len(source)

\* if i + 1 == len(source) and source[i] != '"', with the cursor on index j
MissingClosingQuote(j) == AtLastIndex(j) /\ Read(j) # QUOTE

\* while i < len(source) - 1, in the string branch
StringHasNext == i < Len(source) - 1

StringStart ==
    /\ LoopHead
    /\ Classify(Read(i)) = "string"
    /\ Checked({i}, StartRun("string", <<>>) /\ prev' = "")

\* One iteration of the string loop that does not break: value += char
StringChar ==
    /\ pc = "string"
    /\ StringHasNext
    /\ ~StringCloses(Read(i + 1), char)
    /\ Checked({i + 1},
          /\ prev' = char
          /\ i' = i + 1
          /\ char' = Read(i + 1)
          /\ value' = Append(value, Read(i + 1))
          /\ last' = i + 1
          /\ UNCHANGED <<source, line, col, tokens, pc, err, result, start,
                         spans>>)

\* The index the string loop leaves the cursor on: that of the quote it
\* breaks on, or the index it had when i < len(source) - 1 failed.
StringLeft == IF StringHasNext THEN i + 1 ELSE i

StringLeaves ==
    /\ pc = "string"
    /\ ~(StringHasNext /\ ~StringCloses(Read(i + 1), char))

\* The reads of the last pass of the string loop and of the check after it.
StringLastReads ==
    Ahead(StringHasNext)
        \cup (IF AtLastIndex(StringLeft) THEN {StringLeft} ELSE {})

\* The string loop is left and the check after it raises.
Unterminated ==
    /\ StringLeaves
    /\ MissingClosingQuote(StringLeft)
    /\ Checked(StringLastReads,
          /\ Raise("missing_quote", Read(StringLeft), StringLeft)
          /\ prev' = IF StringHasNext THEN char ELSE prev
          /\ UNCHANGED <<line, col, start, last>>)

\* The string loop is left and the String token is appended.
StringEnd ==
    /\ StringLeaves
    /\ ~MissingClosingQuote(StringLeft)
    /\ Checked(StringLastReads,
          /\ EndRun("string", value, Read(StringLeft), StringLeft, StringLeft)
          /\ prev' = IF StringHasNext THEN char ELSE prev)

\* -------------------------------------------------------------- identifiers

\* The identifier loop stepping back over the character it kept as well.
IdentifierRestoreTwice(j) == j - 2

\* i -= 1 of the identifier loop ("Restore i")
IdentifierRestore(j) == j - 1

\* The keyword test as a prefix test.
IsBooleanPrefix(v) ==
    \/ Len(v) >= 4 /\ SubSeq(v, 1, 4) = TRUE_WORD
    \/ Len(v) >= 5 /\ SubSeq(v, 1, 5) = FALSE_WORD

\* if value in ('true', 'false')
IsBoolean(v) == v \in {TRUE_WORD, FALSE_WORD}

\* while i < len(source) - 1, in the identifier branch
IdentifierHasNext == i < Len(source) - 1

IdentifierStart ==
    /\ LoopHead
    /\ Classify(Read(i)) = "identifier"
    /\ Checked({i}, StartRun("identifier", <<Read(i)>>) /\ UNCHANGED prev)

\* One iteration of the identifier loop that does not break: value += char
IdentifierChar ==
    /\ pc = "identifier"
    /\ IdentifierHasNext
    /\ IDENTIFIER_RE2(Read(i + 1))
    /\ Checked({i + 1},
          /\ i' = i + 1
          /\ char' = Read(i + 1)
          /\ value' = Append(value, Read(i + 1))
          /\ last' = i + 1
          /\ UNCHANGED <<source, line, col, prev, tokens, pc, err, result,
                         start, spans>>)

\* The identifier loop ends; a bool or an identifier token is appended.
IdentifierEnd ==
    /\ pc = "identifier"
    /\ ~(IdentifierHasNext /\ IDENTIFIER_RE2(Read(i + 1)))
    /\ Checked(Ahead(IdentifierHasNext),
          /\ EndRun(IF IsBoolean(value) THEN "bool" ELSE "identifier",
                    IF IsBoolean(value) THEN value = TRUE_WORD ELSE value,
                    IF IdentifierHasNext THEN Read(i + 1) ELSE char,
                    last,
                    IF IdentifierHasNext THEN IdentifierRestore(i + 1) ELSE i)
          /\ UNCHANGED prev)

\* ---------------------------------------------------------------- operators

\* The lookahead guard letting i + 1 be len(source).
OperatorHasNextOffByOne == i < Len(source)

\* if i < len(source) - 1 and ..., in the operator branch
OperatorHasNext == i < Len(source) - 1

\* The operator lookahead reading the current character instead of the next.
OperatorLookaheadAtI == i < Len(source) - 1 /\ Read(i) = "="

\* if i < len(source) - 1 and source[i+1] == '='
OperatorLookahead == OperatorHasNext /\ Read(i + 1) = "="

\* The two-character operator without its i += 1.
OperatorNoAdvance(j) == j

\* i += 1 after value += '='
OperatorAdvance(j) == j + 1

Operator ==
    /\ LoopHead
    /\ Classify(Read(i)) = "operator"
    /\ Checked({i} \cup Ahead(OperatorHasNext),
          IF OperatorLookahead
          THEN EmitOne("operator", <<Read(i), "=">>, i + 1, OperatorAdvance(i))
          ELSE EmitOne("operator", <<Read(i)>>, i, i))

\* ------------------------------------------------------------ specification

Next ==
    \/ OpenParen
    \/ CloseParen
    \/ Whitespace
    \/ LeadingZero
    \/ Zero
    \/ NumberStart
    \/ NumberDigit
    \/ NumberEnd
    \/ StringStart
    \/ StringChar
    \/ Unterminated
    \/ StringEnd
    \/ IdentifierStart
    \/ IdentifierChar
    \/ IdentifierEnd
    \/ Arithmetic
    \/ Operator
    \/ Skip
    \/ Return

Spec == Init /\ [][Next]_vars

\* The interpreter runs the call to its end: a step that can be taken is taken.
FairSpec == Spec /\ WF_vars(Next)

\* ---------------------------------------------------------------- two calls

\* What a call that has ended gave its caller.
Outcome ==
    [err |-> err,
     returned |-> pc = "done",
     tokens |-> IF pc = "done" THEN result[1] ELSE <<>>]

\* The first call has ended, by return or by raise; tokenize is called again
\* on the same string.  Only module-level objects outlive a call.
CallAgain ==
    /\ pc \in {"done", "error"}
    /\ calls = 0
    /\ calls' = 1
    /\ first' = Outcome
    /\ i' = 0
    /\ line' = 1
    /\ col' = 1
    /\ char' = ""
    /\ prev' = ""
    /\ value' = <<>>
    /\ tokens' = FreshTokens(tokens)
    /\ pc' = "main"
    /\ err' = "none"
    /\ result' = <<>>
    /\ start' = 0
    /\ last' = 0
    /\ spans' = <<>>
    /\ reads' = {}
    /\ UNCHANGED <<source, left, right, compared, equal>>

NextTwoCalls == Next \/ CallAgain

TwoCalls == Init /\ [][NextTwoCalls]_vars

\* ----------------------------------------------------------- token equality

\* The kinds and values of tokens that are compared.
KindValues ==
    << <<"paren", "open">>, <<"paren", "close">>,
       <<"number", 0>>, <<"number", 12>>,
       <<"string", <<>> >>, <<"string", <<"a">> >>,
       <<"bool", TRUE>>, <<"bool", FALSE>>,
       <<"identifier", <<"a">> >>, <<"identifier", <<"t", "r", "u", "e", "x">> >>,
       <<"arithmetic", "+">>, <<"arithmetic", "-">>,
       <<"operator", <<"<">> >>, <<"operator", <<"<", "=">> >> >>

\* The positions of the tokens that are compared: none, or a line and a col.
Positions == << <<None, None>>, <<1, 1>>, <<1, 2>>, <<2, 1>> >>

\* t is a token of one of these kinds and values at one of these positions.
IsPoolToken(t) ==
    \E kv \in DOMAIN KindValues : \E p \in DOMAIN Positions :
        t = Token(KindValues[kv][1], KindValues[kv][2],
                  Positions[p][1], Positions[p][2])

\* Two tokens are at hand and no scan is running.
InitEq ==
    /\ source = <<>>
    /\ i = 0
    /\ line = 1
    /\ col = 1
    /\ char = ""
    /\ prev = ""
    /\ value = <<>>
    /\ tokens = <<>>
    /\ pc = "compare"
    /\ err = "none"
    /\ result = <<>>
    /\ start = 0
    /\ last = 0
    /\ spans = <<>>
    /\ reads = {}
    /\ calls = 0
    /\ first = NoOutcome
    /\ IsPoolToken(left)
    /\ IsPoolToken(right)
    /\ compared = FALSE
    /\ equal = FALSE

\* left == right, that is left.__eq__(right)
Compare ==
    /\ pc = "compare"
    /\ ~compared
    /\ compared' = TRUE
    /\ equal' = TokenEq(left, right)
    /\ UNCHANGED <<scan, calls, first, left, right>>

EqSpec == InitEq /\ [][Compare]_vars

\* ------------------------------------------- what the source text determines

\* Last index of the source.
End == Len(source) - 1

\* The number of line feeds before index p.
LineFeedsBefore(p) == Cardinality({k \in 0..(p - 1) : Read(k) = LF})

\* The characters between the most recent line feed before index p (or the
\* start of the source) and index p.
CharsSinceLineFeed(p) ==
    LET lfs == {k \in 0..(p - 1) : Read(k) = LF}
    IN  IF lfs = {} THEN p
        ELSE p - (CHOOSE k \in lfs : \A m \in lfs : m <= k) - 1

\* The quotes after the opening quote at p that a backslash does not precede.
ClosingQuotes(p) ==
    {q \in (p + 1)..End : Read(q) = QUOTE /\ Read(q - 1) # BACKSLASH}

ClosingQuote(p) == CHOOSE q \in ClosingQuotes(p) : \A m \in ClosingQuotes(p) : q <= m

\* The last index of the maximal run of characters of class C that starts
\* at p, whatever the character at p.
RunEnd(p, C(_)) ==
    CHOOSE e \in p..End :
        /\ \A k \in (p + 1)..e : C(Read(k))
        /\ e = End \/ ~C(Read(e + 1))

\* The decimal integer written by the digits at p..e.
Decimal(p, e) ==
    LET RECURSIVE Sum(_)
        Sum(k) == IF k > e THEN 0
                  ELSE DigitVal(Read(k)) * 10 ^ (e - k) + Sum(k + 1)
    IN  Sum(p)

\* The source characters at p..e.
Text(p, e) == SubSeq(source, p + 1, e + 1)

\* The error of the leftmost malformed construct of the source from index k
\* on, lexemes being delimited as the language defines them.
RECURSIVE Malformed(_)
Malformed(k) ==
    IF k > End THEN "none"
    ELSE LET c == Read(k)
         IN  IF c = "0"
             THEN IF k < End /\ DIGIT_RE(Read(k + 1)) THEN "leading_zero"
                  ELSE Malformed(k + 1)
             ELSE IF DIGIT_RE(c) THEN Malformed(RunEnd(k, DIGIT_RE) + 1)
             ELSE IF c = QUOTE
             THEN IF ClosingQuotes(k) = {} THEN "missing_quote"
                  ELSE Malformed(ClosingQuote(k) + 1)
             ELSE IF IDENTIFIER_RE1(c)
             THEN Malformed(RunEnd(k, IDENTIFIER_RE2) + 1)
             ELSE Malformed(k + 1)

\* The tokens appended so far, by index.
Toks == 1..Len(tokens)

\* ------------------------------------------------------------------- claims

\* C1: a string literal whose opening quote has no later quote that a
\* backslash does not precede never yields a String token: the scan fails with
\* the missing-closing-quote error and nothing is returned.
C1_UnterminatedStringFails ==
    /\ \A k \in Toks :
          tokens[k].type = "string" => ClosingQuotes(spans[k].first) # {}
    /\ (pc \in {"done", "error"} /\ Malformed(0) = "missing_quote")
          => (pc = "error" /\ err = "missing_quote" /\ result = <<>>)

\* C2: every returned token's col is 1 plus the number of characters between
\* the most recent line feed before its first character (or the start of the
\* source) and that character.
C2_ColIsPosition ==
    pc = "done" =>
        \A k \in 1..Len(result[1]) :
            result[1][k].col = 1 + CharsSinceLineFeed(spans[k].first)

\* C3: every emitted token's line is 1 plus the number of line feeds before
\* its first character, those inside an earlier string literal included.
C3_LineIsPosition ==
    \A k \in Toks : tokens[k].line = 1 + LineFeedsBefore(spans[k].first)

\* C4: a `0` classified by the main loop raises the leading-zero error when
\* the next character is a digit and otherwise appends Number(0); the error is
\* raised nowhere else.
C4_ZeroStep ==
    (LoopHead /\ Read(i) = "0") =>
        IF i < End /\ Read(i + 1) \in Digits
        THEN pc' = "error" /\ err' = "leading_zero" /\ result' = <<>>
        ELSE /\ pc' = "main" /\ err' = "none"
             /\ Len(tokens') = Len(tokens) + 1
             /\ tokens'[Len(tokens')].type = "number"
             /\ tokens'[Len(tokens')].value = 0
             /\ i' = i + 1

C4_ZeroOnly ==
    err = "leading_zero" =>
        /\ Read(start) = "0"
        /\ start < End
        /\ Read(start + 1) \in Digits
        /\ \A k \in Toks : spans[k].last < start

C4_LeadingZero == [][C4_ZeroStep]_vars /\ []C4_ZeroOnly

\* C4 witness: a Number(0) token was appended and a later `0` before a digit
\* raised the error.
C4_Witness ==
    /\ pc = "error"
    /\ err = "leading_zero"
    /\ \E k \in Toks : tokens[k].type = "number" /\ tokens[k].value = 0

\* C5: an error is fatal: once raised nothing more happens and nothing is
\* returned, the error is that of the leftmost malformed construct of the
\* source, and tokens are returned only at end-of-input of a source that has
\* no malformed construct.
C5_ErrorIsFatal ==
    /\ pc = "error" =>
          (result = <<>> /\ err = Malformed(0) /\ ~ENABLED Next)
    /\ result # <<>> =>
          /\ pc = "done"
          /\ i >= Len(source)
          /\ err = "none"
          /\ Malformed(0) = "none"
          /\ result = <<tokens>>

\* C6: tokens are appended in strictly increasing order of their first index
\* and no source index lies in the lexemes of two tokens.
C6_LexemesDisjoint ==
    \A k \in Toks :
        /\ 0 <= spans[k].first
        /\ spans[k].first <= spans[k].last
        /\ spans[k].last <= End
        /\ k > 1 => spans[k - 1].last < spans[k].first

\* C6 witness: a lexeme of several characters is followed by another token
\* that starts right after it.
C6_Witness ==
    \E k \in Toks :
        /\ tokens[k].type = "operator"
        /\ spans[k].last > spans[k].first
        /\ k < Len(tokens)
        /\ spans[k + 1].first = spans[k].last + 1

\* C7: a digit 1-9 classified by the main loop starts the number loop, which
\* appends exactly one Number token, for the maximal digit run, valued as its
\* decimal integer, and leaves the cursor on the character after the run.
C7_NumberStep ==
    /\ (LoopHead /\ Read(i) \in Digits \ {"0"}) =>
          (pc' = "number" /\ start' = i /\ tokens' = tokens)
    /\ pc = "number" =>
          IF pc' = "number" THEN tokens' = tokens
          ELSE /\ pc' = "main"
               /\ Len(tokens') = Len(tokens) + 1
               /\ tokens'[Len(tokens')].type = "number"
               /\ spans'[Len(spans')].first = start
               /\ i' = RunEnd(start, DIGIT_RE) + 1

C7_NumberTokens ==
    \A k \in Toks :
        (tokens[k].type = "number" /\ Read(spans[k].first) # "0") =>
            /\ spans[k].last = RunEnd(spans[k].first, DIGIT_RE)
            /\ tokens[k].value = Decimal(spans[k].first, spans[k].last)

C8_StringStep ==
    (pc = "string" /\ ClosingQuotes(start) # {}) =>
        IF pc' = "string" THEN tokens' = tokens
        ELSE /\ pc' = "main"
             /\ Len(tokens') = Len(tokens) + 1
             /\ tokens'[Len(tokens')].type = "string"
             /\ spans'[Len(spans')].first = start
             /\ i' = ClosingQuote(start) + 1

C8_StringTokens ==
    \A k \in Toks :
        (tokens[k].type = "string" /\ ClosingQuotes(spans[k].first) # {}) =>
            LET p == spans[k].first
                q == ClosingQuote(p)
            IN  /\ tokens[k].value = Text(p + 1, q - 1)
                /\ spans[k].last = q
                /\ \A m \in Toks : spans[m].first \notin (p + 1)..q
                /\ pc = "error" => start \notin (p + 1)..q

C8_StringValue == [][C8_StringStep]_vars /\ []C8_StringTokens

\* C8 witness: a String token whose value keeps a backslash and the quote it
\* escapes, followed by another token.
C8_Witness ==
    \E k \in Toks :
        /\ tokens[k].type = "string"
        /\ \E j \in 1..(Len(tokens[k].value) - 1) :
              tokens[k].value[j] = BACKSLASH /\ tokens[k].value[j + 1] = QUOTE
        /\ k < Len(tokens)

\* C9: a character of [a-z_] classified by the main loop starts the
\* identifier loop, which appends exactly one token for the maximal run of
\* [a-z_\-0-9]: a bool when the run is exactly true or false, otherwise an
\* identifier holding the run; the cursor is left on the character after it.
C9_IdentifierStep ==
    /\ (LoopHead /\ Read(i) \in Lower \cup {"_"}) =>
          (pc' = "identifier" /\ start' = i /\ tokens' = tokens)
    /\ pc = "identifier" =>
          IF pc' = "identifier" THEN tokens' = tokens
          ELSE /\ pc' = "main"
               /\ Len(tokens') = Len(tokens) + 1
               /\ tokens'[Len(tokens')].type \in {"bool", "identifier"}
               /\ spans'[Len(spans')].first = start
               /\ i' = RunEnd(start, IDENTIFIER_RE2) + 1

C9_IdentifierTokens ==
    \A k \in Toks :
        tokens[k].type \in {"bool", "identifier"} =>
            LET p == spans[k].first
                e == RunEnd(p, IDENTIFIER_RE2)
                run == Text(p, e)
            IN  /\ Read(p) \in Lower \cup {"_"}
                /\ spans[k].last = e
                /\ IF run = <<"t", "r", "u", "e">>
                   THEN tokens[k].type = "bool" /\ tokens[k].value = TRUE
                   ELSE IF run = <<"f", "a", "l", "s", "e">>
                   THEN tokens[k].type = "bool" /\ tokens[k].value = FALSE
                   ELSE tokens[k].type = "identifier" /\ tokens[k].value = run

C10_OperatorStep ==
    (LoopHead /\ Read(i) \in {"=", "<", ">"}) =>
        /\ pc' = "main"
        /\ Len(tokens') = Len(tokens) + 1
        /\ tokens'[Len(tokens')].type = "operator"
        /\ spans'[Len(spans')].first = i
        /\ i' = i + Len(tokens'[Len(tokens')].value)

C10_OperatorTokens ==
    /\ \A k \in Toks :
          tokens[k].type = "operator" =>
              LET p == spans[k].first
              IN  /\ Read(p) \in {"=", "<", ">"}
                  /\ IF p < End /\ Read(p + 1) = "="
                     THEN /\ tokens[k].value = <<Read(p), "=">>
                          /\ spans[k].last = p + 1
                     ELSE /\ tokens[k].value = <<Read(p)>>
                          /\ spans[k].last = p
    /\ (pc = "done" /\ source = <<"<", "=", "=">>) =>
          /\ Len(tokens) = 2
          /\ tokens[1].value = <<"<", "=">>
          /\ tokens[2].value = <<"=">>
    /\ (pc = "done" /\ source = OperatorExample) =>
          [k \in Toks |-> tokens[k].value] =
              << <<"<", "=">>, <<">", "=">>, <<"<">>, <<">">>, <<"=">>,
                 <<"=", "=">> >>

InnerLoops == {"number", "string", "identifier"}

C11_Progress ==
    /\ (pc = "main" /\ pc' = "main") => i' > i
    /\ (pc = "main" /\ pc' \in InnerLoops) => (start' = i /\ i' = i)
    /\ (pc \in InnerLoops /\ pc' \in InnerLoops) => (i' > i /\ start' = start)
    /\ (pc \in InnerLoops /\ pc' = "main") => (i' > start /\ i' > i)
    /\ (pc # "done" /\ pc' = "done") => (pc = "main" /\ i = Len(source))

C11_Ends ==
    /\ 0 <= i
    /\ i <= Len(source)
    /\ (pc = "main" /\ i < Len(source)) => ENABLED Next
    /\ pc = "done" =>
          /\ i = Len(source)
          /\ result = <<tokens>>
          /\ Len(tokens) = Len(spans)
          /\ \A k \in Toks :
                tokens[k].type \in {"paren", "number", "string", "bool",
                                    "identifier", "arithmetic", "operator"}

C12_SameOutcome ==
    (calls = 1 /\ pc \in {"done", "error"}) =>
        /\ first.err = err
        /\ first.returned = (pc = "done")
        /\ pc = "done" =>
              /\ Len(first.tokens) = Len(result[1])
              /\ \A k \in 1..Len(result[1]) :
                    /\ TokenEq(first.tokens[k], result[1][k])
                    /\ first.tokens[k].line = result[1][k].line
                    /\ first.tokens[k].col = result[1][k].col

\* C12 witness: the second call returned, as the first did, several tokens.
C12_Witness ==
    /\ calls = 1
    /\ pc = "done"
    /\ first.returned
    /\ Len(result[1]) >= 2

\* C13: two tokens of the same kind and value are equal whatever their line
\* and col, one of them having none included; two tokens that differ in kind
\* or in value are not equal.
C13_EqualityIgnoresPosition ==
    compared =>
        IF left.type # right.type THEN ~equal
        ELSE IF left.value # right.value THEN ~equal
        ELSE equal

\* C13 witness: a token without position was found equal to a token that has
\* one.
C13_Witness ==
    /\ compared
    /\ equal
    /\ left.line = None
    /\ right.line # None
    /\ right.col # left.col

\* C14: a line feed resets col to 1 and does not advance it: a token whose
\* first character comes right after a line feed has col 1.
C14_ColAfterLineFeed ==
    \A k \in Toks :
        (spans[k].first > 0 /\ Read(spans[k].first - 1) = LF) =>
            tokens[k].col = 1

\* C15: a character that no rule matches is skipped: the step appends no
\* token, raises nothing, moves the cursor by one and the main loop goes on
\* with the next character; `Foo` yields Identifier(oo).
Matched ==
    {"(", ")", " ", "\t", LF, "\r", "\f", QUOTE, "_", "+", "-", "*", "/",
     "=", "<", ">"} \cup Digits \cup Lower

C15_SkipStep ==
    (LoopHead /\ Read(i) \notin Matched) =>
        /\ tokens' = tokens
        /\ spans' = spans
        /\ result' = result
        /\ err' = "none"
        /\ pc' = "main"
        /\ i' = i + 1
        /\ line' = line

C15_SkippedNowhere ==
    /\ \A k \in Toks :
          tokens[k].type # "string" =>
              \A p \in spans[k].first..spans[k].last : Read(p) \in Matched
    /\ (pc = "done" /\ source = <<"F", "o", "o">>) =>
          /\ Len(tokens) = 1
          /\ tokens[1].type = "identifier"
          /\ tokens[1].value = <<"o", "o">>

C15_UnmatchedSkipped == [][C15_SkipStep]_vars /\ []C15_SkippedNowhere

\* C15 witness: `Foo` was scanned to its end and gave one token.
C15_Witness ==
    /\ pc = "done"
    /\ source = <<"F", "o", "o">>
    /\ Len(tokens) = 1
    /\ spans[1].first = 1

\* C16: a parenthesis or arithmetic character classified by the main loop
\* appends exactly one token for that one character, without lookahead; a `-`
\* in front of digits gives Arithmetic(-) and then a Number that is not
\* negative; a whitespace character appends nothing.
C16_SingleStep ==
    /\ (LoopHead /\ Read(i) \in {"(", ")", "+", "-", "*", "/"}) =>
          /\ pc' = "main"
          /\ err' = "none"
          /\ i' = i + 1
          /\ Len(tokens') = Len(tokens) + 1
          /\ spans'[Len(spans')] = [first |-> i, last |-> i]
          /\ LET t == tokens'[Len(tokens')]
             IN  IF Read(i) = "(" THEN t.type = "paren" /\ t.value = "open"
                 ELSE IF Read(i) = ")"
                 THEN t.type = "paren" /\ t.value = "close"
                 ELSE t.type = "arithmetic" /\ t.value = Read(i)
    /\ (LoopHead /\ Read(i) \in {" ", "\t", LF, "\r", "\f"}) =>
          (tokens' = tokens /\ pc' = "main" /\ err' = "none" /\ i' = i + 1)

C16_NoNegativeNumber ==
    \A k \in Toks :
        tokens[k].type = "number" =>
            /\ tokens[k].value >= 0
            /\ (spans[k].first > 0 /\ Read(spans[k].first - 1) = "-") =>
                  /\ k > 1
                  /\ tokens[k - 1].type = "arithmetic"
                  /\ tokens[k - 1].value = "-"
                  /\ spans[k - 1].last = spans[k].first - 1

C16_SingleCharacterTokens ==
    [][C16_SingleStep]_vars /\ []C16_NoNegativeNumber

\* C16 witness: Arithmetic(-) is followed by the Number of the digits after
\* the `-`.
C16_Witness ==
    \E k \in Toks :
        /\ k > 1
        /\ tokens[k].type = "number"
        /\ tokens[k].value > 9
        /\ tokens[k - 1].type = "arithmetic"
        /\ Read(spans[k].first - 1) = "-"

\* C17: every read source[k] has 0 <= k < len(source), the lookaheads at
\* i + 1 and the read of the check after the string loop included, so that no
\* exception other than the two TypeErrors is raised.
C17_ReadsInBounds ==
    /\ \A k \in reads : 0 <= k /\ k < Len(source)
    /\ err \in {"none", "leading_zero", "missing_quote"}
    /\ pc = "error" => result = <<>>

\* C17 witness: a step read the last character of the source as its
\* lookahead.
C17_Witness ==
    /\ Cardinality(reads) = 2
    /\ End \in reads
    /\ pc = "main"

====
